---- MODULE Spec2Model ----
(***************************************************************************)
(* Model of the signaling engine of dataplane-sdk-go (package dsdk):       *)
(* DataPlaneSDK.Prepare / Start / Terminate / Suspend / Recover, the       *)
(* state machine of DataFlow, and the store and transaction contracts the  *)
(* engine consumes.                                                        *)
(*                                                                         *)
(* The engine (sdk.go) is translated from the source.  DataFlow's          *)
(* transition methods, the DataplaneStore and the TransactionContext are   *)
(* not part of the source tree at hand; they are modelled from the         *)
(* written contract (sections 3, 4.2 and 4.3 of the specification).        *)
(***************************************************************************)
EXTENDS Integers, Sequences, FiniteSets, TLC

\* ------------------------------------------------------------------ bounds
\* longest recovery cursor the model enumerates
MaxCursor == 2
\* number of Start calls that run concurrently
NumCallers == 2

\* ------------------------------------------------------- values and types
Preparing == "PREPARING"
Prepared == "PREPARED"
Starting == "STARTING"
Started == "STARTED"
Suspended == "SUSPENDED"
Terminated == "TERMINATED"

DataFlowState == {Preparing, Prepared, Starting, Started, Suspended, Terminated}

\* the zero value of DataFlowState, which a response may carry
EmptyState == ""

\* the process ids the control plane uses, and the empty string
ProcessIds == {"p1", "p2"}
EmptyId == ""

\* the zero value of a string, URL, TransferType or DataAddress field
EmptyValue == ""

\* a nil *DataFlow / nil *DataFlowResponseMessage
NilFlow ==
    [ID |-> "", Consumer |-> FALSE, State |-> "NIL",
     ParticipantID |-> EmptyValue, CounterPartyID |-> EmptyValue,
     DataspaceContext |-> EmptyValue, CallbackAddress |-> EmptyValue,
     TransferType |-> EmptyValue, DestinationDataAddress |-> EmptyValue]
NilResponse == [State |-> "NIL"]

\* the struct literal DataFlow{ID, Consumer, State}: the fields it does not
\* name have their zero values
DataFlow(id, consumer, state) ==
    [ID |-> id, Consumer |-> consumer, State |-> state,
     ParticipantID |-> EmptyValue, CounterPartyID |-> EmptyValue,
     DataspaceContext |-> EmptyValue, CallbackAddress |-> EmptyValue,
     TransferType |-> EmptyValue, DestinationDataAddress |-> EmptyValue]

\* the struct literal ProcessorOptions{Duplicate}: SourceDataAddress has its
\* zero value
ProcessorOptions(duplicate) ==
    [Duplicate |-> duplicate, SourceDataAddress |-> EmptyValue]

\* ProcessorOptions{Duplicate, SourceDataAddress: message.SourceDataAddress}
ProcessorOptionsFor(duplicate, message) ==
    [Duplicate |-> duplicate, SourceDataAddress |-> message.SourceDataAddress]

\* the source data addresses a Start message may carry
SourceDataAddresses == {"source1"}

\* a message as the adapter hands it to the engine: DataFlowBaseMessage, and
\* for Start its SourceDataAddress (the zero value in a Prepare message)
Message(processId, sourceDataAddress) ==
    [ParticipantID |-> "participant1", CounterPartyID |-> "counterparty1",
     DataspaceContext |-> "context1", CallbackAddress |-> "http://test.com/callback",
     TransferType |-> "pull", DestinationDataAddress |-> "destination1",
     SourceDataAddress |-> sourceDataAddress,
     ProcessId |-> processId]

\* no message: Terminate and Suspend take a process id, Recover nothing
NoMessage ==
    [ParticipantID |-> EmptyValue, CounterPartyID |-> EmptyValue,
     DataspaceContext |-> EmptyValue, CallbackAddress |-> EmptyValue,
     TransferType |-> EmptyValue, DestinationDataAddress |-> EmptyValue,
     SourceDataAddress |-> EmptyValue,
     ProcessId |-> EmptyValue]

\* ------------------------------------------------ DataFlow state machine
\* The static transition table (current, target) of the flow entity.
TransitionTable ==
    {<<Preparing, Prepared>>, <<Preparing, Preparing>>,
     <<Prepared, Starting>>, <<Prepared, Started>>,
     <<Starting, Started>>, <<Starting, Starting>>}
    \cup {<<s, Suspended>> : s \in DataFlowState \ {Terminated}}
    \cup {<<s, Terminated>> : s \in DataFlowState \ {Terminated}}
    \cup {<<Terminated, Terminated>>, <<Suspended, Suspended>>}
    \* re-entering the current state is a no-op: the example handlers re-apply
    \* the state the engine applies (Started, Suspended, Terminated)
    \cup {<<s, s>> : s \in DataFlowState}

\* A transition method: checks (current, target) against the table; on
\* mismatch returns an error without mutating the flow.
TransitionTo(flow, target) ==
    IF <<flow.State, target>> \in TransitionTable
    THEN [ok |-> TRUE, flow |-> [flow EXCEPT !.State = target]]
    ELSE [ok |-> FALSE, flow |-> flow]

TransitionToPreparing(flow) == TransitionTo(flow, Preparing)
TransitionToPrepared(flow) == TransitionTo(flow, Prepared)
TransitionToStarting(flow) == TransitionTo(flow, Starting)
TransitionToStarted(flow) == TransitionTo(flow, Started)
TransitionToSuspended(flow) == TransitionTo(flow, Suspended)
TransitionToTerminated(flow) == TransitionTo(flow, Terminated)

\* ------------------------------------------------------- store contract
\* The environment of one call: the store works ("ok"), FindById fails with
\* an error other than not-found ("findErr"), or Create/Save fail ("writeErr").
\* Errors: "store" (a failure of the backend), "notfound", "exists", "absent".
StoreEnv == {"ok", "findErr", "writeErr"}

EmptyStore == [p \in ProcessIds |-> NilFlow]

FindById(st, id, env) ==
    IF env = "findErr" THEN [err |-> "store", flow |-> NilFlow]
    ELSE IF st[id] = NilFlow THEN [err |-> "notfound", flow |-> NilFlow]
    ELSE [err |-> "none", flow |-> st[id]]

\* Create fails if the id already exists.
Create(st, flow, env) ==
    IF env = "writeErr" THEN [err |-> "store", st |-> st]
    ELSE IF st[flow.ID] # NilFlow THEN [err |-> "exists", st |-> st]
    ELSE [err |-> "none", st |-> [st EXCEPT ![flow.ID] = flow]]

\* Save updates an existing record; fails if absent.
Save(st, flow, env) ==
    IF env = "writeErr" THEN [err |-> "store", st |-> st]
    ELSE IF st[flow.ID] = NilFlow THEN [err |-> "absent", st |-> st]
    ELSE [err |-> "none", st |-> [st EXCEPT ![flow.ID] = flow]]

\* -------------------------------------------------- installed handlers
\* What an installed handler does in one invocation.  It returns an error
\* (err) or not; a DataFlowProcessor (OnPrepare, OnStart) that succeeds
\* reports a state in its response (state), and one that fails returns a nil
\* response.  A handler may itself apply the transition of the operation to
\* the flow it was passed (mut), as the handlers of the example provider do:
\* startProcessor applies the state it reports, suspendProcessor applies
\* Suspended, terminateProcessor applies Terminated.
ProcessorBehaviour ==
    {h \in [err : BOOLEAN, state : DataFlowState \cup {"NIL", EmptyState},
            mut : BOOLEAN] :
        /\ h.err <=> h.state = "NIL"
        /\ h.err => ~h.mut
        /\ h.state = EmptyState => ~h.mut}

HandlerBehaviour == [err : BOOLEAN, state : {"NIL"}, mut : BOOLEAN]

\* the flow as the handler leaves it: target is the state the handler applies
HandlerFlow(flow, h, target) ==
    IF h.mut THEN TransitionTo(flow, target).flow ELSE flow

\* the response of a DataFlowProcessor (nil with an error)
HandlerResponse(h) ==
    IF h.err THEN NilResponse ELSE [State |-> h.state]

\* one entry of the log of handler invocations of a call: the handler, the
\* flow and the options it was passed, and what it returned
Invocation(name, flow, options, h) ==
    [name |-> name, id |-> flow.ID, state |-> flow.State,
     consumer |-> flow.Consumer, flow |-> flow,
     duplicate |-> options.Duplicate,
     sourceDataAddress |-> options.SourceDataAddress,
     err |-> h.err, response |-> HandlerResponse(h),
     \* the state of the flow when the handler returns: a processor applies
     \* the state it reports, a handler the state the engine has applied
     after |-> HandlerFlow(flow, h, IF h.state = "NIL" THEN flow.State
                                    ELSE h.state).State]

\* ------------------------------------------------- callback result
\* What the callback handed to execute has done when it returns: its error,
\* the response variable of the enclosing operation, the handlers it
\* invoked, the store calls it made and the store as its transaction sees it.
Result(err, response, calls, finds, creates, saves, st) ==
    [err |-> err, response |-> response, calls |-> calls, finds |-> finds,
     creates |-> creates, saves |-> saves, st |-> st]

\* ------------------------------------------------------------ Prepare
\* PrepareDuplicate with the handler told the message is not a duplicate
PrepareDuplicate_NotFlagged(st, flow, h) ==
    LET call == Invocation("onPrepare", flow, ProcessorOptions(FALSE), h)
        response == HandlerResponse(h)
    IN IF h.err
       THEN Result("handler", response, <<call>>, 1, 0, 0, st)
       ELSE Result("none", response, <<call>>, 1, 0, 0, st)

\* Prepare, duplicate branch: the flow exists in Preparing or Prepared.
PrepareDuplicate(st, flow, h) ==
    LET call == Invocation("onPrepare", flow, ProcessorOptions(TRUE), h)
        response == HandlerResponse(h)
    IN IF h.err
       THEN Result("handler", response, <<call>>, 1, 0, 0, st)
       ELSE Result("none", response, <<call>>, 1, 0, 0, st)

\* PrepareFresh that inserts the flow in whatever state the handler reports
PrepareFresh_AnyState(st, processId, h, env) ==
    LET flow0 == DataFlow(processId, TRUE, Preparing)
        call == Invocation("onPrepare", flow0, ProcessorOptions(FALSE), h)
        response == HandlerResponse(h)
        c == Create(st, [flow0 EXCEPT !.State = response.State], env)
    IN IF h.err
       THEN Result("handler", response, <<call>>, 1, 0, 0, st)
       ELSE IF c.err # "none"
       THEN Result(c.err, response, <<call>>, 1, 1, 0, st)
       ELSE Result("none", response, <<call>>, 1, 1, 0, c.st)

\* PrepareFresh that hands back the response only when it returns nil
PrepareFresh_ResponseOnSuccessOnly(st, processId, h, env) ==
    LET flow0 == DataFlow(processId, TRUE, Preparing)
        call == Invocation("onPrepare", flow0, ProcessorOptions(FALSE), h)
        flow1 == HandlerFlow(flow0, h, h.state)
        response == HandlerResponse(h)
        tr == IF response.State = Prepared THEN TransitionToPrepared(flow1)
              ELSE TransitionToPreparing(flow1)
        c == Create(st, tr.flow, env)
    IN IF h.err
       THEN Result("handler", NilResponse, <<call>>, 1, 0, 0, st)
       ELSE IF response.State \notin {Prepared, Preparing}
       THEN Result("invalid", NilResponse, <<call>>, 1, 0, 0, st)
       ELSE IF ~tr.ok
       THEN Result("transition", NilResponse, <<call>>, 1, 0, 0, st)
       ELSE IF c.err # "none"
       THEN Result(c.err, NilResponse, <<call>>, 1, 1, 0, st)
       ELSE Result("none", response, <<call>>, 1, 1, 0, c.st)

\* Prepare, no flow exists: build the consumer-side flow, invoke the
\* handler, apply the reported state, insert.
PrepareFresh(st, processId, h, env) ==
    LET flow0 == DataFlow(processId, TRUE, Preparing)
        call == Invocation("onPrepare", flow0, ProcessorOptions(FALSE), h)
        flow1 == HandlerFlow(flow0, h, h.state)
        response == HandlerResponse(h)
        tr == IF response.State = Prepared THEN TransitionToPrepared(flow1)
              ELSE TransitionToPreparing(flow1)
        c == Create(st, tr.flow, env)
    IN IF h.err
       THEN Result("handler", response, <<call>>, 1, 0, 0, st)
       ELSE IF response.State \notin {Prepared, Preparing}
       THEN Result("invalid", response, <<call>>, 1, 0, 0, st)
       ELSE IF ~tr.ok
       THEN Result("transition", response, <<call>>, 1, 0, 0, st)
       ELSE IF c.err # "none"
       THEN Result(c.err, response, <<call>>, 1, 1, 0, st)
       ELSE Result("none", response, <<call>>, 1, 1, 0, c.st)

\* PrepareCallback that takes every FindById error for 'no flow exists'
PrepareCallback_AnyErrorIsMissing(st, processId, h, env) ==
    LET found == FindById(st, processId, env)
        flow == found.flow
    IN IF flow # NilFlow /\ flow.State \in {Preparing, Prepared}
       THEN PrepareDuplicate(st, flow, h)
       ELSE IF flow # NilFlow
       THEN Result("state", NilResponse, <<>>, 1, 0, 0, st)
       ELSE PrepareFresh(st, processId, h, env)

\* PrepareCallback that treats an existing flow in any state as a duplicate
PrepareCallback_AnyStateDuplicate(st, processId, h, env) ==
    LET found == FindById(st, processId, env)
        flow == found.flow
    IN IF found.err = "store"
       THEN Result("find", NilResponse, <<>>, 1, 0, 0, st)
       ELSE IF flow # NilFlow
       THEN PrepareDuplicate(st, flow, h)
       ELSE PrepareFresh(st, processId, h, env)

\* the callback Prepare hands to execute
PrepareCallback(st, processId, h, env) ==
    LET found == FindById(st, processId, env)
        flow == found.flow
    IN IF found.err = "store"
       THEN Result("find", NilResponse, <<>>, 1, 0, 0, st)
       ELSE IF flow # NilFlow /\ flow.State \in {Preparing, Prepared}
       THEN PrepareDuplicate(st, flow, h)
       ELSE IF flow # NilFlow
       THEN Result("state", NilResponse, <<>>, 1, 0, 0, st)
       ELSE PrepareFresh(st, processId, h, env)

\* -------------------------------------------------------------- Start
\* startState that assigns the reported state without the transition methods
startState_Unchecked(response, flow) ==
    [err |-> "none", flow |-> [flow EXCEPT !.State = response.State]]

\* startState with the two transitions swapped
startState_Swapped(response, flow) ==
    IF response.State = Started THEN
        LET tr == TransitionToStarting(flow)
        IN [err |-> IF tr.ok THEN "none" ELSE "transition", flow |-> tr.flow]
    ELSE IF response.State = Starting THEN
        LET tr == TransitionToStarted(flow)
        IN [err |-> IF tr.ok THEN "none" ELSE "transition", flow |-> tr.flow]
    ELSE [err |-> "invalid", flow |-> flow]

\* startState without the error return for a state other than Started/Starting
startState_NoDefaultError(response, flow) ==
    IF response.State = Started THEN
        LET tr == TransitionToStarted(flow)
        IN [err |-> IF tr.ok THEN "none" ELSE "transition", flow |-> tr.flow]
    ELSE IF response.State = Starting THEN
        LET tr == TransitionToStarting(flow)
        IN [err |-> IF tr.ok THEN "none" ELSE "transition", flow |-> tr.flow]
    ELSE [err |-> "none", flow |-> [flow EXCEPT !.State = response.State]]

\* startState: apply the state the handler reported to the flow.
startState(response, flow) ==
    IF response.State = Started THEN
        LET tr == TransitionToStarted(flow)
        IN [err |-> IF tr.ok THEN "none" ELSE "transition", flow |-> tr.flow]
    ELSE IF response.State = Starting THEN
        LET tr == TransitionToStarting(flow)
        IN [err |-> IF tr.ok THEN "none" ELSE "transition", flow |-> tr.flow]
    ELSE [err |-> "invalid", flow |-> flow]

\* Start, duplicate branch: the flow exists in Starting or Started.  The
\* branch persists with Store.Create.
StartDuplicate(st, flow, message, h, env) ==
    LET call == Invocation("onStart", flow, ProcessorOptionsFor(TRUE, message), h)
        flow1 == HandlerFlow(flow, h, h.state)
        response == HandlerResponse(h)
        ss == startState(response, flow1)
        c == Create(st, ss.flow, env)
    IN IF h.err
       THEN Result("handler", response, <<call>>, 1, 0, 0, st)
       ELSE IF ss.err # "none"
       THEN Result(ss.err, response, <<call>>, 1, 0, 0, st)
       ELSE IF c.err # "none"
       THEN Result(c.err, response, <<call>>, 1, 1, 0, st)
       ELSE Result("none", response, <<call>>, 1, 1, 0, c.st)

\* StartConsumer that rebuilds the flow as the fresh branch does
StartConsumer_RebuildsFlow(st, flow, message, h, env) ==
    LET flow0 == DataFlow(flow.ID, FALSE, flow.State)
        call == Invocation("onStart", flow0, ProcessorOptionsFor(FALSE, message), h)
        flow1 == HandlerFlow(flow0, h, h.state)
        response == HandlerResponse(h)
        ss == startState(response, flow1)
        s == Save(st, ss.flow, env)
    IN IF h.err
       THEN Result("handler", response, <<call>>, 1, 0, 0, st)
       ELSE IF ss.err # "none"
       THEN Result(ss.err, response, <<call>>, 1, 0, 0, st)
       ELSE IF s.err # "none"
       THEN Result(s.err, response, <<call>>, 1, 0, 1, st)
       ELSE Result("none", response, <<call>>, 1, 0, 1, s.st)

\* StartConsumer that persists with Create, as the duplicate branch does
StartConsumer_Creates(st, flow, message, h, env) ==
    LET call == Invocation("onStart", flow, ProcessorOptionsFor(FALSE, message), h)
        flow1 == HandlerFlow(flow, h, h.state)
        response == HandlerResponse(h)
        ss == startState(response, flow1)
        c == Create(st, ss.flow, env)
    IN IF h.err
       THEN Result("handler", response, <<call>>, 1, 0, 0, st)
       ELSE IF ss.err # "none"
       THEN Result(ss.err, response, <<call>>, 1, 0, 0, st)
       ELSE IF c.err # "none"
       THEN Result(c.err, response, <<call>>, 1, 1, 0, st)
       ELSE Result("none", response, <<call>>, 1, 1, 0, c.st)

\* Start, consumer branch: a consumer-side flow in Prepared is activated.
StartConsumer(st, flow, message, h, env) ==
    LET call == Invocation("onStart", flow, ProcessorOptionsFor(FALSE, message), h)
        flow1 == HandlerFlow(flow, h, h.state)
        response == HandlerResponse(h)
        ss == startState(response, flow1)
        s == Save(st, ss.flow, env)
    IN IF h.err
       THEN Result("handler", response, <<call>>, 1, 0, 0, st)
       ELSE IF ss.err # "none"
       THEN Result(ss.err, response, <<call>>, 1, 0, 0, st)
       ELSE IF s.err # "none"
       THEN Result(s.err, response, <<call>>, 1, 0, 1, st)
       ELSE Result("none", response, <<call>>, 1, 0, 1, s.st)

\* StartFresh that builds the flow as a consumer-side flow
StartFresh_Consumer(st, processId, h, env) ==
    LET flow0 == DataFlow(processId, TRUE, Starting)
        call == Invocation("onStart", flow0, ProcessorOptions(FALSE), h)
        flow1 == HandlerFlow(flow0, h, h.state)
        response == HandlerResponse(h)
        ss == startState(response, flow1)
        c == Create(st, ss.flow, env)
    IN IF h.err
       THEN Result("handler", response, <<call>>, 1, 0, 0, st)
       ELSE IF ss.err # "none"
       THEN Result(ss.err, response, <<call>>, 1, 0, 0, st)
       ELSE IF c.err # "none"
       THEN Result(c.err, response, <<call>>, 1, 1, 0, st)
       ELSE Result("none", response, <<call>>, 1, 1, 0, c.st)

\* Start, no flow exists: build the provider-side flow, invoke the
\* handler, apply the reported state, insert.
StartFresh(st, processId, h, env) ==
    LET flow0 == DataFlow(processId, FALSE, Starting)
        call == Invocation("onStart", flow0, ProcessorOptions(FALSE), h)
        flow1 == HandlerFlow(flow0, h, h.state)
        response == HandlerResponse(h)
        ss == startState(response, flow1)
        c == Create(st, ss.flow, env)
    IN IF h.err
       THEN Result("handler", response, <<call>>, 1, 0, 0, st)
       ELSE IF ss.err # "none"
       THEN Result(ss.err, response, <<call>>, 1, 0, 0, st)
       ELSE IF c.err # "none"
       THEN Result(c.err, response, <<call>>, 1, 1, 0, st)
       ELSE Result("none", response, <<call>>, 1, 1, 0, c.st)

\* StartCallback whose default case processes the flow like the consumer case
StartCallback_NoDefault(st, processId, message, h, env) ==
    LET found == FindById(st, processId, env)
        flow == found.flow
    IN IF found.err = "store"
       THEN Result("find", NilResponse, <<>>, 1, 0, 0, st)
       ELSE IF flow # NilFlow /\ flow.State \in {Starting, Started}
       THEN StartDuplicate(st, flow, message, h, env)
       ELSE IF flow = NilFlow
       THEN StartFresh(st, processId, h, env)
       ELSE StartConsumer(st, flow, message, h, env)

\* StartCallback whose consumer case does not look at the state of the flow
StartCallback_ConsumerAnyState(st, processId, message, h, env) ==
    LET found == FindById(st, processId, env)
        flow == found.flow
    IN IF found.err = "store"
       THEN Result("find", NilResponse, <<>>, 1, 0, 0, st)
       ELSE IF flow # NilFlow /\ flow.State \in {Starting, Started}
       THEN StartDuplicate(st, flow, message, h, env)
       ELSE IF flow # NilFlow /\ flow.Consumer
       THEN StartConsumer(st, flow, message, h, env)
       ELSE IF flow = NilFlow
       THEN StartFresh(st, processId, h, env)
       ELSE Result("state", NilResponse, <<>>, 1, 0, 0, st)

\* the callback Start hands to execute
StartCallback(st, processId, message, h, env) ==
    LET found == FindById(st, processId, env)
        flow == found.flow
    IN IF found.err = "store"
       THEN Result("find", NilResponse, <<>>, 1, 0, 0, st)
       ELSE IF flow # NilFlow /\ flow.State \in {Starting, Started}
       THEN StartDuplicate(st, flow, message, h, env)
       ELSE IF flow # NilFlow /\ flow.Consumer /\ flow.State = Prepared
       THEN StartConsumer(st, flow, message, h, env)
       ELSE IF flow = NilFlow
       THEN StartFresh(st, processId, h, env)
       ELSE Result("state", NilResponse, <<>>, 1, 0, 0, st)

\* --------------------------------------------------- Terminate, Suspend
\* TerminateFound that invokes the handler before the transition
TerminateFound_HandlerFirst(st, flow, h, env) ==
    LET call == Invocation("onTerminate", flow, ProcessorOptions(FALSE), h)
        tr == TransitionToTerminated(HandlerFlow(flow, h, Terminated))
        s == Save(st, tr.flow, env)
    IN IF flow.State = Terminated
       THEN Result("none", NilResponse, <<>>, 1, 0, 0, st)
       ELSE IF h.err
       THEN Result("handler", NilResponse, <<call>>, 1, 0, 0, st)
       ELSE IF ~tr.ok
       THEN Result("transition", NilResponse, <<call>>, 1, 0, 0, st)
       ELSE IF s.err # "none"
       THEN Result(s.err, NilResponse, <<call>>, 1, 0, 1, st)
       ELSE Result("none", NilResponse, <<call>>, 1, 0, 1, s.st)

\* TerminateFound without the skip of an already terminated flow
TerminateFound_NoSkip(st, flow, h, env) ==
    LET tr == TransitionToTerminated(flow)
        call == Invocation("onTerminate", tr.flow, ProcessorOptions(FALSE), h)
        flow1 == HandlerFlow(tr.flow, h, Terminated)
        s == Save(st, flow1, env)
    IN IF ~tr.ok
       THEN Result("transition", NilResponse, <<>>, 1, 0, 0, st)
       ELSE IF h.err
       THEN Result("handler", NilResponse, <<call>>, 1, 0, 0, st)
       ELSE IF s.err # "none"
       THEN Result(s.err, NilResponse, <<call>>, 1, 0, 1, st)
       ELSE Result("none", NilResponse, <<call>>, 1, 0, 1, s.st)

\* TerminateFound that saves the flow although the handler failed
TerminateFound_IgnoresHandlerError(st, flow, h, env) ==
    LET tr == TransitionToTerminated(flow)
        call == Invocation("onTerminate", tr.flow, ProcessorOptions(FALSE), h)
        flow1 == HandlerFlow(tr.flow, h, Terminated)
        s == Save(st, flow1, env)
    IN IF flow.State = Terminated
       THEN Result("none", NilResponse, <<>>, 1, 0, 0, st)
       ELSE IF ~tr.ok
       THEN Result("transition", NilResponse, <<>>, 1, 0, 0, st)
       ELSE IF s.err # "none"
       THEN Result(s.err, NilResponse, <<call>>, 1, 0, 1, st)
       ELSE Result("none", NilResponse, <<call>>, 1, 0, 1, s.st)

\* the part of Terminate's callback after the flow has been found
TerminateFound(st, flow, h, env) ==
    LET tr == TransitionToTerminated(flow)
        call == Invocation("onTerminate", tr.flow, ProcessorOptions(FALSE), h)
        flow1 == HandlerFlow(tr.flow, h, Terminated)
        s == Save(st, flow1, env)
    IN IF flow.State = Terminated
       THEN Result("none", NilResponse, <<>>, 1, 0, 0, st)
       ELSE IF ~tr.ok
       THEN Result("transition", NilResponse, <<>>, 1, 0, 0, st)
       ELSE IF h.err
       THEN Result("handler", NilResponse, <<call>>, 1, 0, 0, st)
       ELSE IF s.err # "none"
       THEN Result(s.err, NilResponse, <<call>>, 1, 0, 1, st)
       ELSE Result("none", NilResponse, <<call>>, 1, 0, 1, s.st)

\* the callback Terminate hands to execute
TerminateCallback(st, processId, h, env) ==
    LET found == FindById(st, processId, env)
    IN IF found.err # "none"
       THEN Result(IF found.err = "store" THEN "find" ELSE "notfound",
                   NilResponse, <<>>, 1, 0, 0, st)
       ELSE TerminateFound(st, found.flow, h, env)

\* SuspendFound without the skip of an already suspended flow
SuspendFound_NoSkip(st, flow, h, env) ==
    LET tr == TransitionToSuspended(flow)
        call == Invocation("onSuspend", tr.flow, ProcessorOptions(FALSE), h)
        flow1 == HandlerFlow(tr.flow, h, Suspended)
        s == Save(st, flow1, env)
    IN IF ~tr.ok
       THEN Result("transition", NilResponse, <<>>, 1, 0, 0, st)
       ELSE IF h.err
       THEN Result("handler", NilResponse, <<call>>, 1, 0, 0, st)
       ELSE IF s.err # "none"
       THEN Result(s.err, NilResponse, <<call>>, 1, 0, 1, st)
       ELSE Result("none", NilResponse, <<call>>, 1, 0, 1, s.st)

\* SuspendFound that assigns Suspended instead of calling the transition method
SuspendFound_Assigns(st, flow, h, env) ==
    LET flow0 == [flow EXCEPT !.State = Suspended]
        call == Invocation("onSuspend", flow0, ProcessorOptions(FALSE), h)
        flow1 == HandlerFlow(flow0, h, Suspended)
        s == Save(st, flow1, env)
    IN IF flow.State = Suspended
       THEN Result("none", NilResponse, <<>>, 1, 0, 0, st)
       ELSE IF h.err
       THEN Result("handler", NilResponse, <<call>>, 1, 0, 0, st)
       ELSE IF s.err # "none"
       THEN Result(s.err, NilResponse, <<call>>, 1, 0, 1, st)
       ELSE Result("none", NilResponse, <<call>>, 1, 0, 1, s.st)

\* the part of Suspend's callback after the flow has been found
SuspendFound(st, flow, h, env) ==
    LET tr == TransitionToSuspended(flow)
        call == Invocation("onSuspend", tr.flow, ProcessorOptions(FALSE), h)
        flow1 == HandlerFlow(tr.flow, h, Suspended)
        s == Save(st, flow1, env)
    IN IF flow.State = Suspended
       THEN Result("none", NilResponse, <<>>, 1, 0, 0, st)
       ELSE IF ~tr.ok
       THEN Result("transition", NilResponse, <<>>, 1, 0, 0, st)
       ELSE IF h.err
       THEN Result("handler", NilResponse, <<call>>, 1, 0, 0, st)
       ELSE IF s.err # "none"
       THEN Result(s.err, NilResponse, <<call>>, 1, 0, 1, st)
       ELSE Result("none", NilResponse, <<call>>, 1, 0, 1, s.st)

\* SuspendCallback that takes a missing flow for one already suspended
SuspendCallback_MissingIsDone(st, processId, h, env) ==
    LET found == FindById(st, processId, env)
    IN IF found.err = "store"
       THEN Result("find", NilResponse, <<>>, 1, 0, 0, st)
       ELSE IF found.err = "notfound"
       THEN Result("none", NilResponse, <<>>, 1, 0, 0, st)
       ELSE SuspendFound(st, found.flow, h, env)

\* the callback Suspend hands to execute
SuspendCallback(st, processId, h, env) ==
    LET found == FindById(st, processId, env)
    IN IF found.err # "none"
       THEN Result(IF found.err = "store" THEN "find" ELSE "notfound",
                   NilResponse, <<>>, 1, 0, 0, st)
       ELSE SuspendFound(st, found.flow, h, env)

\* ------------------------------------------------------------ Recover
\* the for-loop of Recover over the flows the cursor yields: the handler
\* invocations and the ids of the flows whose handler failed
RECURSIVE RecoverLoop(_, _, _)
RecoverLoop(cursor, fails, i) ==
    IF i > Len(cursor) THEN [calls |-> <<>>, failed |-> <<>>]
    ELSE LET rest == RecoverLoop(cursor, fails, i + 1)
             flow == cursor[i]
             call == Invocation("onRecover", flow, ProcessorOptions(FALSE),
                                [err |-> fails[i], state |-> "NIL", mut |-> FALSE])
         IN IF flow = NilFlow THEN rest
            ELSE [calls |-> <<call>> \o rest.calls,
                  failed |-> IF fails[i] THEN <<flow.ID>> \o rest.failed
                             ELSE rest.failed]

\* the callback Recover hands to execute: err, handler invocations, ids of
\* the failed flows, and how often the cursor was closed
RecoverCallback(cursor, fails, iterNil, cursorErr) ==
    LET loop == RecoverLoop(cursor, fails, 1)
    IN IF iterNil
       THEN [err |-> "iterator", calls |-> <<>>, failed |-> <<>>, closes |-> 0]
       ELSE IF cursorErr
       THEN [err |-> "cursor", calls |-> loop.calls, failed |-> loop.failed,
             closes |-> 1]
       ELSE [err |-> IF loop.failed = <<>> THEN "none" ELSE "joined",
             calls |-> loop.calls, failed |-> loop.failed, closes |-> 1]

\* ----------------------------------------------- transaction and execute
\* TransactionContext.Execute: the callback is invoked once; a non-nil
\* return rolls the transaction back, nil commits it.
Execute(st, cb) ==
    IF cb.err = "none" THEN cb ELSE [cb EXCEPT !.st = st]

\* execute without the select on ctx.Done()
execute_NoContextCheck(st, cancelled, cb) ==
    [r |-> Execute(st, cb), executes |-> 1]

\* execute that enters the transaction again when the callback fails
execute_RetriesOnError(st, cancelled, cb) ==
    IF cancelled
    THEN [r |-> Result("cancelled", NilResponse, <<>>, 0, 0, 0, st), executes |-> 0]
    ELSE [r |-> Execute(st, cb), executes |-> IF cb.err = "none" THEN 1 ELSE 2]

\* execute: a cancelled context returns ctx.Err() without entering the
\* transaction
execute(st, cancelled, cb) ==
    IF cancelled
    THEN [r |-> Result("cancelled", NilResponse, <<>>, 0, 0, 0, st), executes |-> 0]
    ELSE [r |-> Execute(st, cb), executes |-> 1]

\* the processId check placed inside the callback, after FindById
EmptyProcessId_InsideCallback(st) ==
    [r |-> Result("empty", NilResponse, <<>>, 1, 0, 0, st), executes |-> 1]

\* the processId check that precedes execute
EmptyProcessId(st) ==
    [r |-> Result("empty", NilResponse, <<>>, 0, 0, 0, st), executes |-> 0]

\* ---------------------------------------------------------------- state
VARIABLES
    store,  \* the committed store: process id -> persisted flow (or NilFlow)
    last,   \* the last call: its inputs, the store before it, what it did
    txn,    \* concurrent Start calls: each caller's position and transaction
    rec,    \* a Recover call that runs statement by statement
    builder, \* a DataPlaneSDKBuilder and the result of its last Build
    decoded  \* a JSON payload and the result of decoding it into a message

vars == <<store, last, txn, rec, builder, decoded>>

\* --------------------------------------------------------------- builder
\* the fields of DataPlaneSDK a builder method assigns
BuilderFields ==
    {"Store", "TrxContext", "onPrepare", "onStart", "onTerminate",
     "onSuspend", "onRecover"}

\* NewDataPlaneSDKBuilder: an sdk whose fields are all nil (FALSE), and no
\* Build so far
EmptySDK == [f \in BuilderFields \cup {"Monitor"} |-> FALSE]

NoBuild == [called |-> FALSE, sdk |-> EmptySDK, nil |-> TRUE, err |-> "none"]

NewDataPlaneSDKBuilder == [sdk |-> EmptySDK, result |-> NoBuild]

\* Build that does not check onRecover
Build_NoRecoverCheck(sdk) ==
    LET missing(f) == ~sdk[f]
        failed(e) == [called |-> TRUE, sdk |-> sdk, nil |-> TRUE, err |-> e]
    IN IF missing("Store") THEN failed("store is required")
       ELSE IF missing("TrxContext") THEN failed("transaction context is required")
       ELSE IF missing("onPrepare") THEN failed("onPrepare handler is required")
       ELSE IF missing("onStart") THEN failed("onStart handler is required")
       ELSE IF missing("onTerminate") THEN failed("onTerminate handler is required")
       ELSE IF missing("onSuspend") THEN failed("onSuspend handler is required")
       ELSE [called |-> TRUE, sdk |-> [sdk EXCEPT !["Monitor"] = TRUE],
             nil |-> FALSE, err |-> "none"]

\* Build: the checks in their order, the default monitor, the sdk returned.
\* The result keeps the sdk (with the fields as Build saw them), whether
\* the returned *DataPlaneSDK is nil, and the error.
Build(sdk) ==
    LET missing(f) == ~sdk[f]
        failed(e) == [called |-> TRUE, sdk |-> sdk, nil |-> TRUE, err |-> e]
    IN IF missing("Store") THEN failed("store is required")
       ELSE IF missing("TrxContext") THEN failed("transaction context is required")
       ELSE IF missing("onPrepare") THEN failed("onPrepare handler is required")
       ELSE IF missing("onStart") THEN failed("onStart handler is required")
       ELSE IF missing("onTerminate") THEN failed("onTerminate handler is required")
       ELSE IF missing("onSuspend") THEN failed("onSuspend handler is required")
       ELSE IF missing("onRecover") THEN failed("onRecover handler is required")
       ELSE [called |-> TRUE, sdk |-> [sdk EXCEPT !["Monitor"] = TRUE],
             nil |-> FALSE, err |-> "none"]

\* ------------------------------------------------------ message decoding
\* A JSON payload, by what the decoder can tell of it: it is not JSON
\* ("invalid"), it is JSON with a member of the wrong type ("mistyped"), or
\* it is JSON whose members have the types of the message ("wellformed").
\* Each member of a wellformed payload is absent, present with the zero
\* value ("empty"), or present with a value; the cases of a member are the
\* ones whose decoding the source or its tests determine.
StringFields ==
    {"messageID", "participantID", "counterPartyID", "dataspaceContext",
     "processID", "agreementID", "datasetID"}

Payloads ==
    {p \in [kind : {"prepare", "start"},
            json : {"invalid", "mistyped", "wellformed"},
            strings : [StringFields -> {"absent", "value"}],
            callbackAddress : {"absent", "empty", "value"},
            transferType : {"empty", "value"},
            destinationDataAddress : {"empty", "value"},
            sourceDataAddress : {"absent", "value"}] :
        /\ p.json # "wellformed"
           => /\ \A f \in StringFields : p.strings[f] = "value"
              /\ p.callbackAddress = "value" /\ p.transferType = "value"
              /\ p.destinationDataAddress = "value"
              /\ p.sourceDataAddress = "value" <=> p.kind = "start"
        /\ p.kind = "prepare" => p.sourceDataAddress = "absent"}

\* the result of a decoding: whether it returned nil, the sentinel errors
\* the returned error matches (errors.Is), and whether the decoded
\* message's SourceDataAddress was set
Decoded(sentinels, source) ==
    [ok |-> sentinels = {}, is |-> sentinels, source |-> source]

\* (*DataFlowBaseMessage).UnmarshalJSON: json.Unmarshal into the alias,
\* validate.Struct (required members; an absent or empty member decodes to
\* the zero value), the check of the callback address
DataFlowBaseMessage_UnmarshalJSON(p) ==
    IF p.json # "wellformed" THEN Decoded({"ErrInvalidInput"}, FALSE)
    ELSE IF \/ \E f \in StringFields : p.strings[f] # "value"
            \/ p.transferType # "value"
    THEN Decoded({"ErrValidation"}, FALSE)
    ELSE IF p.callbackAddress # "value" THEN Decoded({"ErrValidation"}, FALSE)
    ELSE Decoded({}, FALSE)

\* DataFlowStartMessage.UnmarshalJSON that decodes the members of the alias
\* itself, SourceDataAddress included
DataFlowStartMessage_UnmarshalJSON_OwnFields(p) ==
    LET base == DataFlowBaseMessage_UnmarshalJSON(p)
        source == p.sourceDataAddress = "value"
    IN IF p.json # "wellformed" THEN Decoded({"ErrInvalidInput"}, FALSE)
       ELSE IF ~base.ok THEN Decoded(base.is \cup {"ErrInvalidInput"}, FALSE)
       ELSE IF ~source THEN Decoded({"ErrValidation"}, source)
       ELSE Decoded({}, source)

\* (*DataFlowStartMessage).UnmarshalJSON: json.Unmarshal into the alias,
\* then validate.Struct.  The alias embeds DataFlowBaseMessage, whose
\* UnmarshalJSON is promoted to it, so json.Unmarshal hands the payload to
\* that method: the members of the base message are decoded and validated
\* and SourceDataAddress is left nil, which validate.Struct then rejects.
DataFlowStartMessage_UnmarshalJSON(p) ==
    LET base == DataFlowBaseMessage_UnmarshalJSON(p)
        source == FALSE
    IN IF p.json # "wellformed" THEN Decoded({"ErrInvalidInput"}, FALSE)
       ELSE IF ~base.ok THEN Decoded(base.is \cup {"ErrInvalidInput"}, FALSE)
       ELSE IF ~source THEN Decoded({"ErrValidation"}, source)
       ELSE Decoded({}, source)

\* no payload has been decoded
NotDecoded ==
    [done |-> FALSE,
     payload |-> [kind |-> "prepare", json |-> "invalid",
                  strings |-> [f \in StringFields |-> "value"],
                  callbackAddress |-> "value", transferType |-> "value",
                  destinationDataAddress |-> "value",
                  sourceDataAddress |-> "absent"],
     result |-> Decoded({}, FALSE)]

Callers == 1..NumCallers

\* a Start call that has not begun
IdleTxn ==
    [pc |-> "idle", pid |-> EmptyId, snap |-> EmptyStore, flow |-> NilFlow,
     branch |-> "none", calls |-> <<>>, response |-> NilResponse,
     err |-> "none", inserted |-> FALSE, saved |-> FALSE]

\* a Recover call that has not begun: its position, whether its context is
\* cancelled, the cursor it acquired and how far it has read it, the flow
\* iter.Get returned and whether the context was cancelled when iter.Next
\* returned it, the OnRecover invocations, the ids in errs, whether
\* iter.Error is set, the returned error and the flow ids it names, and how
\* often the cursor was closed and Execute entered
IdleRec ==
    [pc |-> "idle", cancelled |-> FALSE, acquired |-> FALSE, cursor |-> <<>>,
     pos |-> 0, flow |-> NilFlow, fetchedCancelled |-> FALSE, calls |-> <<>>,
     errs |-> <<>>, iterErr |-> FALSE, err |-> "none", errIds |-> <<>>,
     closes |-> 0, executes |-> 0,
     \* the store when Execute began, the store as the transaction sees
     \* it, the Create and Save calls Recover itself has made, and whether
     \* Execute has committed
     before |-> EmptyStore, view |-> EmptyStore,
     engineCreates |-> 0, engineSaves |-> 0, committed |-> FALSE]

\* the record of a call: the operation, its process id, whether its context
\* was cancelled, the store's environment, the store before the call,
\* and what it did (its error, its response, the handler invocations, the
\* store calls, the Execute calls; for Recover the failed flows and the
\* number of times the cursor was closed)
Call(op, processId, message, cancelled, env, pre, x, failed, closes) ==
    [op |-> op, pid |-> processId, msg |-> message,
     cancelled |-> cancelled, env |-> env,
     pre |-> pre, err |-> x.r.err,
     response |-> x.r.response, calls |-> x.r.calls, finds |-> x.r.finds,
     creates |-> x.r.creates, saves |-> x.r.saves, executes |-> x.executes,
     failed |-> failed, closes |-> closes]

Init ==
    /\ store = EmptyStore
    /\ last = Call("none", EmptyId, NoMessage, FALSE, "ok", EmptyStore,
                   [r |-> Result("none", NilResponse, <<>>, 0, 0, 0, EmptyStore),
                    executes |-> 0], <<>>, 0)
    /\ txn = [c \in Callers |-> IdleTxn]
    /\ rec = IdleRec
    /\ builder = NewDataPlaneSDKBuilder
    /\ decoded = NotDecoded

\* ----------------------------------------------------------- operations
Prepare(message, cancelled, env, h) ==
    LET processId == message.ProcessId
        x == IF processId = EmptyId THEN EmptyProcessId(store)
             ELSE execute(store, cancelled, PrepareCallback(store, processId, h, env))
    IN /\ store' = x.r.st
       /\ last' = Call("Prepare", processId, message, cancelled, env, store, x, <<>>, 0)
       /\ UNCHANGED <<txn, rec, builder, decoded>>

Start(message, cancelled, env, h) ==
    LET processId == message.ProcessId
        x == IF processId = EmptyId THEN EmptyProcessId(store)
             ELSE execute(store, cancelled, StartCallback(store, processId, message, h, env))
    IN /\ store' = x.r.st
       /\ last' = Call("Start", processId, message, cancelled, env, store, x, <<>>, 0)
       /\ UNCHANGED <<txn, rec, builder, decoded>>

Terminate(processId, cancelled, env, h) ==
    LET x == IF processId = EmptyId THEN EmptyProcessId(store)
             ELSE execute(store, cancelled, TerminateCallback(store, processId, h, env))
    IN /\ store' = x.r.st
       /\ last' = Call("Terminate", processId, NoMessage, cancelled, env, store, x, <<>>, 0)
       /\ UNCHANGED <<txn, rec, builder, decoded>>

Suspend(processId, cancelled, env, h) ==
    LET x == IF processId = EmptyId THEN EmptyProcessId(store)
             ELSE execute(store, cancelled, SuspendCallback(store, processId, h, env))
    IN /\ store' = x.r.st
       /\ last' = Call("Suspend", processId, NoMessage, cancelled, env, store, x, <<>>, 0)
       /\ UNCHANGED <<txn, rec, builder, decoded>>

\* the cursors AcquireDataFlowsForRecovery may return: persisted flows, each
\* at most once, and nil entries, at most MaxCursor entries in all
Cursors(st) ==
    LET items == {st[p] : p \in ProcessIds} \cup {NilFlow}
    IN {cur \in UNION {[1..n -> items] : n \in 0..MaxCursor} :
           \A i \in DOMAIN cur : \A j \in DOMAIN cur :
               (i # j /\ cur[i] = cur[j]) => cur[i] = NilFlow}

\* which OnRecover invocations fail: one choice per flow the cursor yields
\* (the handler is not invoked for a nil entry)
Failures(cursor) ==
    {f \in [1..Len(cursor) -> BOOLEAN] :
        \A i \in DOMAIN cursor : cursor[i] = NilFlow => ~f[i]}

Recover(cancelled, cursor, fails, iterNil, cursorErr) ==
    LET cb == RecoverCallback(cursor, fails, iterNil, cursorErr)
        \* AcquireDataFlowsForRecovery is the one store read of the callback
        r == Result(cb.err, NilResponse, cb.calls, 1, 0, 0, store)
        x == execute(store, cancelled, r)
    IN /\ store' = x.r.st
       /\ last' = Call("Recover", EmptyId, NoMessage, cancelled, "ok", store, x,
                       IF cancelled THEN <<>> ELSE cb.failed,
                       IF cancelled THEN 0 ELSE cb.closes)
       /\ UNCHANGED <<txn, rec, builder, decoded>>

\* the inputs of a call: a process id, whether the context is cancelled, the
\* store's environment and the installed handler's behaviour (one
\* representative where the call ends before the input is read)
Inputs(H) ==
    {i \in (ProcessIds \cup {EmptyId}) \X BOOLEAN \X StoreEnv \X H :
        /\ i[2] => i[3] = "ok"
        /\ (i[1] = EmptyId \/ i[2]) => (~i[4].err /\ ~i[4].mut)
        /\ i[1] = EmptyId => i[3] = "ok"}

\* the inputs of Recover: the cursor, which handlers fail, whether no cursor
\* is returned, whether the cursor reports an error
RecoverInputs(st) ==
    {i \in BOOLEAN \X Cursors(st) \X BOOLEAN \X BOOLEAN :
        /\ (i[1] \/ i[3]) => (i[2] = <<>> /\ ~i[4])
        /\ i[1] => ~i[3]}

Next ==
    \/ \E i \in Inputs(ProcessorBehaviour) :
          Prepare(Message(i[1], EmptyValue), i[2], i[3], i[4])
    \/ \E i \in Inputs(ProcessorBehaviour) :
          \E a \in SourceDataAddresses :
              Start(Message(i[1], a), i[2], i[3], i[4])
    \/ \E i \in Inputs(HandlerBehaviour) : Terminate(i[1], i[2], i[3], i[4])
    \/ \E i \in Inputs(HandlerBehaviour) : Suspend(i[1], i[2], i[3], i[4])
    \/ \E i \in RecoverInputs(store) :
          \E fails \in Failures(i[2]) :
              Recover(i[1], i[2], fails, i[3], i[4])

Spec == Init /\ [][Next]_vars

TypeOK ==
    /\ \A p \in ProcessIds :
           \/ store[p] = NilFlow
           \/ \E c \in BOOLEAN, s \in DataFlowState : store[p] = DataFlow(p, c, s)
    /\ last.op \in {"none", "Prepare", "Start", "Terminate", "Suspend", "Recover"}

\* ------------------------------------------------- concurrent Start calls
\* Start, statement by statement, for calls that run concurrently.  Each
\* call runs in its own transaction: it reads from the snapshot taken when
\* the transaction begins; a Create or Save waits while another transaction
\* holds an uncommitted write of the same id; Create fails if the id exists;
\* Save fails if the record changed after the snapshot; a callback that
\* returns nil commits, one that returns an error rolls back.

\* another transaction holds an uncommitted write of id
WriteLocked(c, id) ==
    \E d \in Callers \ {c} :
        /\ txn[d].pc = "commit"
        /\ txn[d].pid = id

\* Start(ctx, message): the processId check, execute, Execute begins
ConcBegin(c, processId) ==
    /\ txn[c].pc = "idle"
    /\ txn' = [txn EXCEPT ![c] = [@ EXCEPT !.pc = "find", !.pid = processId,
                                            !.snap = store]]
    /\ UNCHANGED <<store, last, rec, builder, decoded>>

\* FindById and the switch on the flow
ConcFind(c) ==
    /\ txn[c].pc = "find"
    /\ LET found == FindById(txn[c].snap, txn[c].pid, "ok")
           flow == found.flow
           branch == IF flow # NilFlow /\ flow.State \in {Starting, Started}
                     THEN "duplicate"
                     ELSE IF flow # NilFlow /\ flow.Consumer /\ flow.State = Prepared
                     THEN "consumer"
                     ELSE IF flow = NilFlow THEN "fresh"
                     ELSE "default"
       IN txn' = [txn EXCEPT ![c] =
                    [@ EXCEPT !.flow = IF branch = "fresh"
                                       THEN DataFlow(txn[c].pid, FALSE, Starting)
                                       ELSE flow,
                              !.branch = branch,
                              !.err = IF branch = "default" THEN "state" ELSE "none",
                              !.pc = IF branch = "default" THEN "rollback"
                                     ELSE "handler"]]
    /\ UNCHANGED <<store, last, rec, builder, decoded>>

\* onStart and startState
ConcHandler(c, h) ==
    /\ txn[c].pc = "handler"
    /\ LET flow == txn[c].flow
           call == Invocation("onStart", flow,
                              ProcessorOptions(txn[c].branch = "duplicate"), h)
           flow1 == HandlerFlow(flow, h, h.state)
           response == HandlerResponse(h)
           ss == startState(response, flow1)
           err == IF h.err THEN "handler" ELSE ss.err
       IN txn' = [txn EXCEPT ![c] =
                    [@ EXCEPT !.calls = <<call>>,
                              !.response = response,
                              !.flow = IF err = "none" THEN ss.flow ELSE flow,
                              !.err = err,
                              !.pc = IF err = "none" THEN "write" ELSE "rollback"]]
    /\ UNCHANGED <<store, last, rec, builder, decoded>>

\* Store.Create (duplicate and fresh branch) or Store.Save (consumer branch)
ConcWrite(c) ==
    /\ txn[c].pc = "write"
    /\ ~WriteLocked(c, txn[c].pid)
    /\ LET id == txn[c].pid
           create == txn[c].branch \in {"duplicate", "fresh"}
           err == IF create
                  THEN IF store[id] # NilFlow \/ txn[c].snap[id] # NilFlow
                       THEN "exists" ELSE "none"
                  ELSE IF store[id] # txn[c].snap[id] THEN "conflict" ELSE "none"
       IN txn' = [txn EXCEPT ![c] =
                    [@ EXCEPT !.err = err,
                              !.inserted = create /\ err = "none",
                              !.saved = ~create /\ err = "none",
                              !.pc = IF err = "none" THEN "commit" ELSE "rollback"]]
    /\ UNCHANGED <<store, last, rec, builder, decoded>>

\* the callback returned nil: Execute commits
ConcCommit(c) ==
    /\ txn[c].pc = "commit"
    /\ store' = [store EXCEPT ![txn[c].pid] = txn[c].flow]
    /\ txn' = [txn EXCEPT ![c] = [@ EXCEPT !.pc = "done"]]
    /\ UNCHANGED <<last, rec, builder, decoded>>

\* the callback returned an error: Execute rolls back
ConcRollback(c) ==
    /\ txn[c].pc = "rollback"
    /\ txn' = [txn EXCEPT ![c] = [@ EXCEPT !.pc = "done"]]
    /\ UNCHANGED <<store, last, rec, builder, decoded>>

\* the stores the concurrent calls start from: empty, or a consumer-side
\* flow that Prepare has left in Prepared
ConcStores ==
    {EmptyStore} \cup
    {[EmptyStore EXCEPT ![p] = DataFlow(p, TRUE, Prepared)] : p \in ProcessIds}

InitConc ==
    /\ store \in ConcStores
    /\ last = Call("none", EmptyId, NoMessage, FALSE, "ok", EmptyStore,
                   [r |-> Result("none", NilResponse, <<>>, 0, 0, 0, EmptyStore),
                    executes |-> 0], <<>>, 0)
    /\ txn = [c \in Callers |-> IdleTxn]
    /\ rec = IdleRec
    /\ builder = NewDataPlaneSDKBuilder
    /\ decoded = NotDecoded

NextConc ==
    \/ \E c \in Callers, p \in ProcessIds : ConcBegin(c, p)
    \/ \E c \in Callers : ConcFind(c)
    \/ \E c \in Callers, h \in ProcessorBehaviour : ConcHandler(c, h)
    \/ \E c \in Callers : ConcWrite(c)
    \/ \E c \in Callers : ConcCommit(c)
    \/ \E c \in Callers : ConcRollback(c)

SpecConc == InitConc /\ [][NextConc]_vars

\* ------------------------------------------- Recover, step by step
\* Recover, statement by statement, with the context cancelled at any
\* moment by the caller.  The cursor is the store's: it yields flows and nil
\* entries, and any iter.Next may return false with iter.Error set.

\* the caller cancels the context
RecCancel ==
    /\ rec.pc # "done"
    /\ ~rec.cancelled
    /\ rec' = [rec EXCEPT !.cancelled = TRUE]
    /\ UNCHANGED <<store, last, txn, builder, decoded>>

\* execute (the select on ctx.Done()), Execute, AcquireDataFlowsForRecovery,
\* the nil check of the iterator and the defer of iter.Close
RecBegin(cursor, iterNil) ==
    /\ rec.pc = "idle"
    /\ rec' = IF rec.cancelled
              THEN [rec EXCEPT !.pc = "done", !.err = "cancelled",
                               !.before = store, !.view = store]
              ELSE IF iterNil
              THEN [rec EXCEPT !.pc = "done", !.err = "iterator", !.executes = 1,
                               !.before = store, !.view = store]
              ELSE [rec EXCEPT !.pc = "next", !.acquired = TRUE,
                               !.cursor = cursor, !.executes = 1,
                               !.before = store, !.view = store]
    /\ UNCHANGED <<store, last, txn, builder, decoded>>

\* iter.Next(), iter.Get() and the skip of a nil flow; broken: this Next
\* returns false because the cursor failed
RecNext(broken) ==
    /\ rec.pc = "next"
    /\ rec' = IF broken
              THEN [rec EXCEPT !.pc = "finish", !.iterErr = TRUE]
              ELSE IF rec.pos = Len(rec.cursor)
              THEN [rec EXCEPT !.pc = "finish"]
              ELSE LET flow == rec.cursor[rec.pos + 1]
                   IN [rec EXCEPT !.pos = rec.pos + 1,
                                  !.flow = flow,
                                  !.fetchedCancelled = rec.cancelled,
                                  !.pc = IF flow = NilFlow THEN "next"
                                         ELSE "handler"]
    /\ UNCHANGED <<store, last, txn, builder, decoded>>

\* dsdk.onRecover(ctx, flow) is called
RecHandlerStart ==
    /\ rec.pc = "handler"
    /\ rec' = [rec EXCEPT !.pc = "running",
                          !.calls = Append(@, [id |-> rec.flow.ID,
                                               cancelled |-> rec.fetchedCancelled,
                                               err |-> FALSE,
                                               wrote |-> FALSE])]
    /\ UNCHANGED <<store, last, txn, builder, decoded>>

\* the store after an OnRecover handler that has resumed the flow it was
\* passed: it moved the flow to Started and saved it inside the transaction
HandlerSave(st, flow) ==
    Save(st, TransitionToStarted(flow).flow, "ok").st

\* RecHandlerReturn after which Recover itself saves the recovered flow
RecHandlerReturn_SavesFlow(fails, moves) ==
    /\ rec.pc = "running"
    /\ rec' = [rec EXCEPT !.pc = "next",
                          !.calls[Len(rec.calls)].err = fails,
                          !.calls[Len(rec.calls)].wrote = moves,
                          !.errs = IF fails THEN Append(@, rec.flow.ID) ELSE @,
                          !.view = IF moves THEN HandlerSave(@, rec.flow) ELSE @,
                          !.engineSaves = IF fails THEN @ ELSE @ + 1]
    /\ UNCHANGED <<store, last, txn, builder, decoded>>

\* onRecover returns; an error is appended to errs with the flow's ID.
\* moves: the handler has saved the flow through the store.
RecHandlerReturn(fails, moves) ==
    /\ rec.pc = "running"
    /\ rec' = [rec EXCEPT !.pc = "next",
                          !.calls[Len(rec.calls)].err = fails,
                          !.calls[Len(rec.calls)].wrote = moves,
                          !.errs = IF fails THEN Append(@, rec.flow.ID) ELSE @,
                          !.view = IF moves THEN HandlerSave(@, rec.flow) ELSE @]
    /\ UNCHANGED <<store, last, txn, builder, decoded>>

\* RecFinish that returns the joined handler errors before it looks at
\* iter.Error()
RecFinish_JoinsFirst ==
    /\ rec.pc = "finish"
    /\ rec' = IF rec.errs # <<>>
              THEN [rec EXCEPT !.pc = "close", !.err = "joined",
                               !.errIds = rec.errs]
              ELSE [rec EXCEPT !.pc = "close",
                               !.err = IF rec.iterErr THEN "cursor" ELSE "none"]
    /\ UNCHANGED <<store, last, txn, builder, decoded>>

\* RecFinish that closes the cursor only when it returns errors.Join
RecFinish_NoCloseOnCursorError ==
    /\ rec.pc = "finish"
    /\ rec' = IF rec.iterErr
              THEN [rec EXCEPT !.pc = "done", !.err = "cursor"]
              ELSE [rec EXCEPT !.pc = "close",
                               !.err = IF rec.errs = <<>> THEN "none" ELSE "joined",
                               !.errIds = rec.errs]
    /\ UNCHANGED <<store, last, txn, builder, decoded>>

\* RecFinish that returns nil when handlers have failed
RecFinish_DropsHandlerErrors ==
    /\ rec.pc = "finish"
    /\ rec' = IF rec.iterErr
              THEN [rec EXCEPT !.pc = "close", !.err = "cursor"]
              ELSE [rec EXCEPT !.pc = "close", !.err = "none"]
    /\ UNCHANGED <<store, last, txn, builder, decoded>>

\* the check of iter.Error() and the return of errors.Join(errs...)
RecFinish ==
    /\ rec.pc = "finish"
    /\ rec' = IF rec.iterErr
              THEN [rec EXCEPT !.pc = "close", !.err = "cursor"]
              ELSE [rec EXCEPT !.pc = "close",
                               !.err = IF rec.errs = <<>> THEN "none" ELSE "joined",
                               !.errIds = rec.errs]
    /\ UNCHANGED <<store, last, txn, builder, decoded>>

\* the deferred iter.Close(), after which the callback has returned and
\* Execute commits the transaction (nil) or rolls it back (an error)
RecClose ==
    /\ rec.pc = "close"
    /\ rec' = [rec EXCEPT !.pc = "done", !.closes = @ + 1,
                          !.committed = (rec.err = "none")]
    /\ store' = IF rec.err = "none" THEN rec.view ELSE store
    /\ UNCHANGED <<last, txn, builder, decoded>>

\* the stores Recover starts from: per process id no flow, or a provider-side
\* flow that Start has left in Starting
RecoverStores ==
    [ProcessIds -> {NilFlow}] \cup
    {st \in [ProcessIds -> {NilFlow} \cup
                {DataFlow(p, FALSE, Starting) : p \in ProcessIds}] :
        \A p \in ProcessIds : st[p] # NilFlow => st[p].ID = p}

InitRecover ==
    /\ store \in RecoverStores
    /\ last = Call("none", EmptyId, NoMessage, FALSE, "ok", EmptyStore,
                   [r |-> Result("none", NilResponse, <<>>, 0, 0, 0, EmptyStore),
                    executes |-> 0], <<>>, 0)
    /\ txn = [c \in Callers |-> IdleTxn]
    /\ rec = IdleRec
    /\ builder = NewDataPlaneSDKBuilder
    /\ decoded = NotDecoded

NextRecover ==
    \/ RecCancel
    \/ \E cursor \in Cursors(store), iterNil \in BOOLEAN :
           /\ (rec.cancelled \/ iterNil) => cursor = <<>>
           /\ RecBegin(cursor, iterNil)
    \/ \E broken \in BOOLEAN : RecNext(broken)
    \/ RecHandlerStart
    \/ \E fails \in BOOLEAN, moves \in BOOLEAN :
           /\ fails => ~moves
           /\ RecHandlerReturn(fails, moves)
    \/ RecFinish
    \/ RecClose

SpecRecover == InitRecover /\ [][NextRecover]_vars

\* --------------------------------------------------- building an engine
\* a builder method assigns its argument, which may be nil, to its field
BuilderSet(field, value) ==
    /\ builder' = [builder EXCEPT !.sdk[field] = value]
    /\ UNCHANGED <<store, last, txn, rec, decoded>>

\* Build()
BuilderBuild ==
    /\ builder' = [builder EXCEPT !.result = Build(builder.sdk),
                                  !.sdk = Build(builder.sdk).sdk]
    /\ UNCHANGED <<store, last, txn, rec, decoded>>

InitBuild ==
    /\ store = EmptyStore
    /\ last = Call("none", EmptyId, NoMessage, FALSE, "ok", EmptyStore,
                   [r |-> Result("none", NilResponse, <<>>, 0, 0, 0, EmptyStore),
                    executes |-> 0], <<>>, 0)
    /\ txn = [c \in Callers |-> IdleTxn]
    /\ rec = IdleRec
    /\ builder = NewDataPlaneSDKBuilder
    /\ decoded = NotDecoded

NextBuild ==
    \/ \E f \in BuilderFields, v \in BOOLEAN : BuilderSet(f, v)
    \/ BuilderBuild

SpecBuild == InitBuild /\ [][NextBuild]_vars

\* ------------------------------------------------------ decoding a message
\* json.Unmarshal of a payload into a DataFlowPrepareMessage, which has the
\* UnmarshalJSON of the base message it embeds
DecodePrepare ==
    /\ ~decoded.done /\ decoded.payload.kind = "prepare"
    /\ decoded' = [decoded EXCEPT
                      !.done = TRUE,
                      !.result = DataFlowBaseMessage_UnmarshalJSON(decoded.payload)]
    /\ UNCHANGED <<store, last, txn, rec, builder>>

\* json.Unmarshal of a payload into a DataFlowStartMessage
DecodeStart ==
    /\ ~decoded.done /\ decoded.payload.kind = "start"
    /\ decoded' = [decoded EXCEPT
                      !.done = TRUE,
                      !.result = DataFlowStartMessage_UnmarshalJSON(decoded.payload)]
    /\ UNCHANGED <<store, last, txn, rec, builder>>

InitDecode ==
    /\ store = EmptyStore
    /\ last = Call("none", EmptyId, NoMessage, FALSE, "ok", EmptyStore,
                   [r |-> Result("none", NilResponse, <<>>, 0, 0, 0, EmptyStore),
                    executes |-> 0], <<>>, 0)
    /\ txn = [c \in Callers |-> IdleTxn]
    /\ rec = IdleRec
    /\ builder = NewDataPlaneSDKBuilder
    /\ \E p \in Payloads :
           decoded = [done |-> FALSE, payload |-> p, result |-> Decoded({}, FALSE)]

NextDecode ==
    \/ DecodePrepare
    \/ DecodeStart

SpecDecode == InitDecode /\ [][NextDecode]_vars

\* ---------------------------------------------------------------- claims
\* the last call ran its callback: a process id was given, the context was
\* not cancelled
Ran == last.pid \in ProcessIds /\ ~last.cancelled

\* the persisted flow of the last call's process id before and after the call
Pre == last.pre[last.pid]
Post == store[last.pid]

\* the last call invoked its handler once and the handler succeeded
HandlerSucceeded == Len(last.calls) = 1 /\ ~last.calls[1].err

FlowOps == {"Prepare", "Start", "Terminate", "Suspend"}

\* C1: a Start for a flow already persisted in Starting or Started (a
\* duplicate Start), whose handler succeeds and reports the persisted state,
\* returns without error, invokes OnStart exactly once with Duplicate=true
\* and leaves the one persisted record as the first call left it.
C1_DuplicateStartSucceeds ==
    (/\ last.op = "Start" /\ Ran /\ last.env = "ok"
     /\ Pre.State \in {Starting, Started}
     /\ \A i \in DOMAIN last.calls :
            ~last.calls[i].err /\ last.calls[i].response.State = Pre.State)
    => /\ last.err = "none"
       /\ Len(last.calls) = 1
       /\ last.calls[1].name = "onStart"
       /\ last.calls[1].duplicate
       /\ Post = Pre

\* C2: a Prepare for a flow persisted in Preparing or Prepared invokes
\* OnPrepare exactly once with Duplicate=true, performs no Create and no
\* Save and leaves the store as it was; if the handler succeeds the call
\* returns the handler's response without error.
C2_DuplicatePrepare ==
    (/\ last.op = "Prepare" /\ Ran /\ last.env # "findErr"
     /\ Pre.State \in {Preparing, Prepared})
    => /\ Len(last.calls) = 1
       /\ last.calls[1].name = "onPrepare"
       /\ last.calls[1].duplicate
       /\ last.creates = 0 /\ last.saves = 0
       /\ store = last.pre
       /\ ~last.calls[1].err =>
              /\ last.err = "none"
              /\ last.response = last.calls[1].response
              /\ last.response # NilResponse

C2_Witness ==
    /\ last.op = "Prepare" /\ Ran
    /\ Pre.State = Prepared
    /\ HandlerSucceeded /\ last.calls[1].duplicate
    /\ last.err = "none" /\ last.response.State = Prepared

\* C3: Terminate on a flow persisted in Terminated returns success, invokes
\* no handler and makes no store write; the store is as it was.
C3_TerminateIdempotent ==
    (/\ last.op = "Terminate" /\ Ran /\ last.env # "findErr"
     /\ Pre.State = Terminated)
    => /\ last.err = "none"
       /\ last.calls = <<>>
       /\ last.creates = 0 /\ last.saves = 0
       /\ store = last.pre

C3_Witness ==
    /\ last.op = "Terminate" /\ Ran
    /\ Pre.State = Terminated
    /\ last.err = "none" /\ Post.State = Terminated

\* C4: Suspend on a flow persisted in Suspended returns success, invokes no
\* handler and makes no store write; the store is as it was.
C4_SuspendIdempotent ==
    (/\ last.op = "Suspend" /\ Ran /\ last.env # "findErr"
     /\ Pre.State = Suspended)
    => /\ last.err = "none"
       /\ last.calls = <<>>
       /\ last.creates = 0 /\ last.saves = 0
       /\ store = last.pre

C4_Witness ==
    /\ last.op = "Suspend" /\ Ran
    /\ Pre.State = Suspended
    /\ last.err = "none" /\ Post.State = Suspended

\* C5: if the handler of a Prepare, Start, Terminate or Suspend returns an
\* error, the operation returns an error and every persisted flow (an absent
\* one included) is as it was before the call.
C5_HandlerErrorRollsBack ==
    (/\ last.op \in FlowOps
     /\ \E i \in DOMAIN last.calls : last.calls[i].err)
    => /\ last.err # "none"
       /\ store = last.pre

C5_Witness ==
    /\ last.op = "Terminate" /\ Ran
    /\ Pre.State = Started
    /\ Len(last.calls) = 1 /\ last.calls[1].err
    /\ last.err = "handler" /\ Post.State = Started

\* C6: every change of a persisted state made by a call is a transition of
\* the table; a flow is created only by Prepare, in Preparing or Prepared,
\* or by Start, in Starting or Started.
C6_OnlyAllowedTransitions ==
    \A p \in ProcessIds :
        LET a == last.pre[p]
            b == store[p]
        IN \/ a.State = b.State
           \/ /\ a = NilFlow
              /\ last.pid = p
              /\ \/ last.op = "Prepare" /\ b.State \in {Preparing, Prepared}
                 \/ last.op = "Start" /\ b.State \in {Starting, Started}
           \/ /\ a # NilFlow /\ b # NilFlow
              /\ last.pid = p /\ last.op \in FlowOps
              /\ <<a.State, b.State>> \in TransitionTable

C6_Witness ==
    /\ last.op = "Start" /\ Ran
    /\ Pre.State = Prepared /\ Post.State = Started
    /\ last.err = "none"

\* C7: a flow persisted in Terminated is never changed by a later call;
\* Prepare, Start and Suspend on it fail without invoking a handler.
C7_TerminatedImmutable ==
    /\ \A p \in ProcessIds :
           last.pre[p].State = Terminated => store[p] = last.pre[p]
    /\ (/\ last.op \in {"Prepare", "Start", "Suspend"} /\ Ran
        /\ Pre.State = Terminated)
       => /\ last.err # "none"
          /\ last.calls = <<>>
          /\ last.creates = 0 /\ last.saves = 0

C7_Witness ==
    /\ last.op = "Suspend" /\ Ran /\ last.env = "ok"
    /\ Pre.State = Terminated
    /\ last.err = "transition" /\ Post.State = Terminated

\* C8: Start for an existing flow that is neither in Starting or Started nor
\* a consumer-side flow in Prepared fails with the error of the state check,
\* invokes no handler and leaves the store as it was; so does the Start that
\* follows Start and Terminate.
C8_StartForbidden ==
    (/\ last.op = "Start" /\ Ran /\ last.env # "findErr"
     /\ Pre # NilFlow
     /\ Pre.State \notin {Starting, Started}
     /\ ~(Pre.Consumer /\ Pre.State = Prepared))
    => /\ last.err = "state"
       /\ last.calls = <<>>
       /\ last.creates = 0 /\ last.saves = 0
       /\ store = last.pre

C8_Witness ==
    /\ last.op = "Start" /\ Ran /\ last.env = "ok"
    /\ ~Pre.Consumer /\ Pre.State = Terminated
    /\ last.err = "state"

\* C9: of two concurrent Start calls for the same process id that both begin
\* when no flow exists, and whose handlers succeed, exactly one inserts the
\* flow, the other has its handler invoked with Duplicate=true, and one
\* record exists afterwards.
C9_OneWinnerOneDuplicate ==
    \A a \in Callers : \A b \in Callers \ {a} :
        (/\ txn[a].pc = "done" /\ txn[b].pc = "done"
         /\ txn[a].pid = txn[b].pid
         /\ txn[a].snap[txn[a].pid] = NilFlow
         /\ txn[b].snap[txn[b].pid] = NilFlow
         /\ \A c \in {a, b} :
                /\ Len(txn[c].calls) = 1
                /\ ~txn[c].calls[1].err
                /\ txn[c].response.State \in {Starting, Started}
         /\ txn[a].inserted)
        => /\ ~txn[b].inserted
           /\ txn[b].calls[1].duplicate
           /\ store[txn[a].pid] # NilFlow

C13_TransitionHandlerSave ==
    \A o \in {[op |-> "Terminate", name |-> "onTerminate", target |-> Terminated,
               skip |-> {Terminated}],
              [op |-> "Suspend", name |-> "onSuspend", target |-> Suspended,
               skip |-> {Suspended, Terminated}]} :
        (/\ last.op = o.op /\ Ran /\ last.env # "findErr"
         /\ Pre # NilFlow /\ Pre.State \notin o.skip)
        => /\ Len(last.calls) = 1
           /\ last.calls[1].name = o.name
           /\ last.calls[1].id = last.pid
           /\ last.calls[1].state = o.target
           /\ last.creates = 0
           /\ last.calls[1].err => (last.saves = 0 /\ store = last.pre)
           /\ ~last.calls[1].err => last.saves = 1
           /\ (~last.calls[1].err /\ last.env = "ok")
              => /\ last.err = "none"
                 /\ Post = [Pre EXCEPT !.State = o.target]

C13_Witness ==
    /\ last.op = "Terminate" /\ Ran
    /\ Pre.State = Started
    /\ HandlerSucceeded /\ last.calls[1].state = Terminated
    /\ last.saves = 1 /\ last.err = "none"
    /\ Post.State = Terminated

\* C14: a Prepare for a flow persisted in Starting, Started, Suspended or
\* Terminated fails with the error of the state check, invokes no handler
\* and leaves the store as it was.
C14_PrepareForbidden ==
    (/\ last.op = "Prepare" /\ Ran /\ last.env # "findErr"
     /\ Pre.State \in {Starting, Started, Suspended, Terminated})
    => /\ last.err = "state"
       /\ last.calls = <<>>
       /\ last.creates = 0 /\ last.saves = 0
       /\ store = last.pre

C14_Witness ==
    /\ last.op = "Prepare" /\ Ran /\ last.env = "ok"
    /\ Pre.State = Started
    /\ last.err = "state" /\ last.calls = <<>>
    /\ Post = Pre

\* C15: Terminate and Suspend for a process id with no persisted flow return
\* the error that wraps the store's not-found error, invoke no handler and
\* create no record.
C15_MissingFlow ==
    (/\ last.op \in {"Terminate", "Suspend"} /\ Ran /\ last.env # "findErr"
     /\ Pre = NilFlow)
    => /\ last.err = "notfound"
       /\ last.calls = <<>>
       /\ last.creates = 0 /\ last.saves = 0
       /\ store = last.pre

C15_Witness ==
    /\ last.op = "Suspend" /\ Ran /\ last.env = "ok"
    /\ Pre = NilFlow
    /\ last.err = "notfound" /\ last.finds = 1
    /\ Post = NilFlow

\* C16: Prepare, Start, Terminate and Suspend called with an empty process
\* id return an error before any store call, any handler call and any
\* Execute of the transaction context.
C16_EmptyProcessId ==
    (last.op \in FlowOps /\ last.pid = EmptyId)
    => /\ last.err = "empty"
       /\ last.finds = 0 /\ last.creates = 0 /\ last.saves = 0
       /\ last.calls = <<>>
       /\ last.executes = 0
       /\ store = last.pre

C16_Witness ==
    /\ last.op = "Start" /\ last.pid = EmptyId
    /\ last.err = "empty" /\ last.executes = 0
    /\ \E p \in ProcessIds : store[p] # NilFlow

\* the non-nil flows the cursor of the Recover call has yielded so far
Yielded == SelectSeq(SubSeq(rec.cursor, 1, rec.pos), LAMBDA f : f # NilFlow)

\* C17: when Recover has returned, OnRecover was invoked exactly once for
\* each non-nil flow the cursor yielded, in the cursor's order (so a failing
\* handler stops nothing), and the error Recover returns names the ID of
\* every flow whose handler failed.
C17_RecoverAggregates ==
    (rec.pc = "done" /\ rec.acquired)
    => /\ Len(rec.calls) = Len(Yielded)
       /\ \A i \in DOMAIN Yielded : rec.calls[i].id = Yielded[i].ID
       /\ \A i \in DOMAIN rec.calls :
              rec.calls[i].err
              => /\ rec.err # "none"
                 /\ \E j \in DOMAIN rec.errIds : rec.errIds[j] = rec.calls[i].id

\* C18: the cursor is closed exactly once before Recover returns on every
\* path on which a cursor was acquired (normal completion, cursor error,
\* handler errors), never without one, and never before the sweep has ended.
C18_CursorClosedOnce ==
    /\ rec.pc = "done" => rec.closes = (IF rec.acquired THEN 1 ELSE 0)
    /\ rec.pc # "done" => rec.closes = 0

C18_Witness ==
    /\ rec.pc = "done" /\ rec.acquired
    /\ rec.iterErr /\ rec.err = "cursor"
    /\ Len(rec.calls) = 1 /\ rec.calls[1].err
    /\ rec.closes = 1

\* C19: Recover starts no OnRecover call for a flow that the cursor handed
\* over when the context was already cancelled: having cancelled, the sweep
\* stops between flows.
C19_StopsBetweenFlows ==
    \A i \in DOMAIN rec.calls : ~rec.calls[i].cancelled

\* C20 as stated: a call of any operation with a context that is already
\* cancelled returns the context's cancellation error, without entering the
\* transaction, calling the store or invoking a handler.
C20_CancelledReturnsCtxErr ==
    last.cancelled
    => /\ last.err = "cancelled"
       /\ last.executes = 0
       /\ last.finds = 0 /\ last.creates = 0 /\ last.saves = 0
       /\ last.calls = <<>> /\ last.closes = 0
       /\ store = last.pre

\* C20, amended: a call with a context that is already cancelled neither
\* enters the transaction nor calls the store nor invokes a handler; it
\* returns the context's cancellation error, except that Prepare, Start,
\* Terminate and Suspend with an empty process id return the error of the
\* process id check.
C20_CancelledAborts ==
    last.cancelled
    => /\ last.err = (IF last.op \in FlowOps /\ last.pid = EmptyId
                      THEN "empty" ELSE "cancelled")
       /\ last.executes = 0
       /\ last.finds = 0 /\ last.creates = 0 /\ last.saves = 0
       /\ last.calls = <<>> /\ last.closes = 0
       /\ store = last.pre

C20_Witness ==
    /\ last.op = "Terminate" /\ last.cancelled
    /\ last.pid \in ProcessIds /\ Pre.State = Started
    /\ last.err = "cancelled" /\ last.executes = 0
    /\ Post = Pre

C22_ConsumerFixed ==
    \A p \in ProcessIds :
        /\ (last.pre[p] # NilFlow /\ store[p] # NilFlow)
           => store[p].Consumer = last.pre[p].Consumer
        /\ (last.pre[p] = NilFlow /\ store[p] # NilFlow)
           => /\ last.op \in {"Prepare", "Start"}
              /\ store[p].Consumer = (last.op = "Prepare")

C22_Witness ==
    /\ last.op = "Suspend" /\ Ran
    /\ Pre.Consumer /\ Pre.State = Started
    /\ last.err = "none"
    /\ Post.Consumer /\ Post.State = Suspended

\* C23: on a Start for a process id with no persisted flow, the options
\* passed to OnStart have Duplicate=false and the SourceDataAddress of the
\* Start message.
C23_FreshStartOptions ==
    (/\ last.op = "Start" /\ Ran /\ last.env # "findErr"
     /\ Pre = NilFlow)
    => /\ Len(last.calls) = 1
       /\ ~last.calls[1].duplicate
       /\ last.calls[1].sourceDataAddress = last.msg.SourceDataAddress

\* the fields of a flow that a Prepare message populates
Populated(flow, message) ==
    /\ flow.ID = message.ProcessId
    /\ flow.ParticipantID = message.ParticipantID
    /\ flow.CounterPartyID = message.CounterPartyID
    /\ flow.DataspaceContext = message.DataspaceContext
    /\ flow.CallbackAddress = message.CallbackAddress
    /\ flow.TransferType = message.TransferType
    /\ flow.DestinationDataAddress = message.DestinationDataAddress

\* C24: the flow a fresh Prepare hands to OnPrepare, and the flow it then
\* inserts, carry the message's ProcessID, ParticipantID, CounterPartyID,
\* DataspaceContext, CallbackAddress, TransferType and
\* DestinationDataAddress.
C24_FreshPreparePopulated ==
    (/\ last.op = "Prepare" /\ Ran /\ last.env # "findErr"
     /\ Pre = NilFlow)
    => /\ Len(last.calls) = 1
       /\ Populated(last.calls[1].flow, last.msg)
       /\ last.err = "none" => Populated(Post, last.msg)

\* C27: a call enters TransactionContext.Execute at most once, and exactly
\* once when its context is not cancelled and (for Prepare, Start, Terminate
\* and Suspend) its process id is not empty; a call that does not enter
\* Execute makes no store call and no handler call.
C27_OneExecute ==
    last.op # "none"
    => /\ last.executes \in {0, 1}
       /\ last.executes = 1
          <=> (~last.cancelled /\ (last.op = "Recover" \/ last.pid # EmptyId))
       /\ last.executes = 0
          => /\ last.finds = 0 /\ last.creates = 0 /\ last.saves = 0
             /\ last.calls = <<>> /\ last.closes = 0

C27_Witness ==
    /\ last.op = "Terminate" /\ Ran /\ last.env = "writeErr"
    /\ Pre.State = Started
    /\ last.executes = 1
    /\ last.finds = 1 /\ Len(last.calls) = 1 /\ last.saves = 1
    /\ last.err = "store"

\* C28: in Prepare and Start, a FindById error other than not-found makes
\* the call return the error that wraps it, with no handler call and no
\* Create or Save; a not-found result is taken for 'no flow exists' and the
\* call goes on as for a fresh flow: the handler is invoked with
\* Duplicate=false on the newly built flow.
C28_FindErrors ==
    /\ (last.op \in {"Prepare", "Start"} /\ Ran /\ last.env = "findErr")
       => /\ last.err = "find"
          /\ last.finds = 1
          /\ last.calls = <<>>
          /\ last.creates = 0 /\ last.saves = 0
          /\ store = last.pre
    /\ (last.op \in {"Prepare", "Start"} /\ Ran /\ last.env # "findErr"
        /\ Pre = NilFlow)
       => /\ last.err \notin {"find", "notfound"}
          /\ Len(last.calls) = 1
          /\ ~last.calls[1].duplicate
          /\ last.calls[1].flow =
                 DataFlow(last.pid, last.op = "Prepare",
                          IF last.op = "Prepare" THEN Preparing ELSE Starting)

C28_Witness ==
    /\ last.op = "Prepare" /\ Ran /\ last.env = "findErr"
    /\ Pre.State = Prepared
    /\ last.err = "find" /\ last.calls = <<>>
    /\ Post = Pre

\* C29: when the cursor reports an error after the iteration has ended,
\* Recover returns the error that wraps the cursor's error, which is not the
\* aggregate of the handler errors and names no flow.
C29_CursorErrorSeparate ==
    (rec.pc \in {"close", "done"} /\ rec.acquired)
    => /\ rec.iterErr => (rec.err = "cursor" /\ rec.errIds = <<>>)
       /\ rec.err = "cursor" => rec.iterErr

C29_Witness ==
    /\ rec.pc = "done" /\ rec.acquired
    /\ rec.iterErr /\ rec.err = "cursor"
    /\ Len(rec.calls) = 2 /\ rec.calls[2].err /\ ~rec.calls[1].err

C25_WitnessMissing ==
    /\ builder.result.called
    /\ builder.result.nil
    /\ \A f \in BuilderFields : builder.result.sdk[f] <=> f # "onRecover"

\* C26: decoding a message whose JSON is syntactically invalid or mistyped
\* yields an error that matches ErrInvalidInput and not ErrValidation;
\* decoding well-formed JSON that lacks a required field, has an empty
\* callback address or an empty transfer type yields an error that matches
\* ErrValidation; a message with all required fields decodes without error.
C26_DecodeErrors ==
    decoded.done
    => LET p == decoded.payload
           complete ==
               /\ \A f \in StringFields : p.strings[f] = "value"
               /\ p.callbackAddress = "value"
               /\ p.transferType = "value"
               /\ p.kind = "start" => p.sourceDataAddress = "value"
       IN /\ p.json # "wellformed"
             => /\ "ErrInvalidInput" \in decoded.result.is
                /\ "ErrValidation" \notin decoded.result.is
          /\ p.json = "wellformed" /\ ~complete
             => "ErrValidation" \in decoded.result.is
          /\ p.json = "wellformed" /\ complete => decoded.result.ok

\* the same statement of the messages that have the decoder of the base
\* message (DataFlowPrepareMessage)
C26_PrepareDecodeErrors ==
    decoded.payload.kind = "prepare" => C26_DecodeErrors

\* C31: a flow persisted in Suspended never returns to Starting or Started:
\* every Start and every Prepare on it fails without invoking a handler and
\* without a store write, Suspend on it invokes no handler and writes
\* nothing (and succeeds when the flow can be read), and the only change a
\* call makes to its persisted record is Terminate's, to Terminated.
C31_SuspendedNeverRestarts ==
    /\ \A p \in ProcessIds :
           last.pre[p].State = Suspended
           => \/ store[p] = last.pre[p]
              \/ /\ last.op = "Terminate" /\ last.pid = p
                 /\ store[p] = [last.pre[p] EXCEPT !.State = Terminated]
    /\ (/\ last.op \in {"Prepare", "Start"} /\ Ran
        /\ Pre.State = Suspended)
       => /\ last.err # "none"
          /\ last.calls = <<>>
          /\ last.creates = 0 /\ last.saves = 0
    /\ (/\ last.op = "Suspend" /\ Ran
        /\ Pre.State = Suspended)
       => /\ last.calls = <<>>
          /\ last.creates = 0 /\ last.saves = 0
          /\ last.env # "findErr" => last.err = "none"

\* a Start on a suspended consumer-side flow was rejected by the state check
C31_Witness ==
    /\ last.op = "Start" /\ Ran /\ last.env = "ok"
    /\ Pre.State = Suspended /\ Pre.Consumer
    /\ last.err = "state" /\ last.calls = <<>>
    /\ Post = Pre

\* a Terminate moved a suspended flow to Terminated
C31_WitnessTerminate ==
    /\ last.op = "Terminate" /\ Ran
    /\ Pre.State = Suspended
    /\ last.err = "none" /\ Post.State = Terminated

\* the OnRecover invocations of the sweep that failed, and the ones that
\* succeeded after saving their flow
FailedCalls == {i \in DOMAIN rec.calls : rec.calls[i].err}
WritingCalls == {i \in DOMAIN rec.calls : rec.calls[i].wrote}

\* C32: if at least one OnRecover handler fails during a sweep, the callback
\* passed to Execute returns a non-nil error and the one transaction of the
\* sweep is rolled back, the store effects of the flows whose handlers
\* succeeded included; the sweep commits only when every handler succeeds
\* and the cursor reports no error.
C32_FailedSweepRollsBack ==
    rec.pc = "done"
    => /\ FailedCalls # {}
          => /\ rec.err # "none"
             /\ ~rec.committed
             /\ store = rec.before
       /\ rec.committed
          => /\ FailedCalls = {} /\ ~rec.iterErr
             /\ rec.err = "none"
             /\ store = rec.view
       /\ rec.executes <= 1

\* the first handler saved its flow as Started, the second failed, and the
\* store holds the first flow as it was before the sweep
C32_Witness ==
    /\ rec.pc = "done" /\ Len(rec.calls) = 2
    /\ rec.calls[1].wrote /\ rec.calls[2].err
    /\ rec.view[rec.calls[1].id].State = Started
    /\ store[rec.calls[1].id].State = Starting
    /\ store = rec.before /\ rec.err = "joined"

\* every handler succeeded, one saved its flow, and the sweep committed
C32_WitnessCommit ==
    /\ rec.pc = "done" /\ Len(rec.calls) = 2
    /\ rec.committed /\ WritingCalls # {}
    /\ store # rec.before

\* C33: Recover itself performs no Create and no Save; a persisted flow
\* differs after Recover from what it was before only if an OnRecover
\* handler has changed it.
C33_RecoverWritesNothing ==
    /\ rec.engineCreates = 0 /\ rec.engineSaves = 0
    /\ rec.pc # "idle"
       => \A p \in ProcessIds :
              /\ rec.view[p] # rec.before[p]
                 => \E i \in WritingCalls : rec.calls[i].id = p
              /\ store[p] # rec.before[p]
                 => \E i \in WritingCalls : rec.calls[i].id = p

\* a sweep over two flows whose handlers wrote nothing has committed and
\* the store is as it was
C33_Witness ==
    /\ rec.pc = "done" /\ rec.committed
    /\ Len(rec.calls) = 2 /\ WritingCalls = {}
    /\ store = rec.before
    /\ \A p \in ProcessIds : store[p] # NilFlow

\* C34: when OnPrepare or OnStart succeeds and a later step of the same
\* Prepare or Start fails (the reported state is invalid, the transition is
\* rejected, Create or Save fails), the operation returns its error together
\* with the handler's non-nil response; a failed Prepare or Start returns a
\* nil response only when no handler was invoked or the handler failed.
C34_ResponseWithLateError ==
    (last.op \in {"Prepare", "Start"} /\ last.err # "none")
    => /\ HandlerSucceeded
          => /\ last.response # NilResponse
             /\ last.response = last.calls[1].response
             /\ last.err \in {"invalid", "transition", "store", "exists", "absent"}
       /\ last.response = NilResponse
          => \/ last.calls = <<>>
             \/ last.calls[1].err

\* a fresh Prepare whose handler reported Started failed with the handler's
\* response
C34_Witness ==
    /\ last.op = "Prepare" /\ Ran /\ Pre = NilFlow
    /\ HandlerSucceeded
    /\ last.err = "invalid"
    /\ last.response = [State |-> Started]
    /\ store = last.pre

\* a Start whose Save failed returned the handler's response with the error
C34_WitnessStore ==
    /\ last.op = "Start" /\ Ran /\ last.env = "writeErr"
    /\ Pre.State = Prepared /\ HandlerSucceeded
    /\ last.err = "store" /\ last.saves = 1
    /\ last.response = [State |-> Started]

\* a duplicate Start whose handler reported a state the flow cannot move to
\* returned the handler's response with the error of the transition
C34_WitnessTransition ==
    /\ last.op = "Start" /\ Ran
    /\ Pre.State = Started /\ HandlerSucceeded
    /\ last.err = "transition"
    /\ last.response = [State |-> Starting]

====
